---- MODULE Spec2Model ----
(***************************************************************************)
(* A model of src/suffix_trie.py (GenomeNode, OrfFinder) and of            *)
(* src/dijkstra.py (MinHeap, Vertex, DijkstraGraph.dijkstra, opt_delivery). *)
(*                                                                         *)
(* Strings are sequences of character codes (ord), so that the code's      *)
(* ord(char) - 65 + 1 is computed, not assumed.  A trie is a function from *)
(* the paths of link indices that lead to its nodes (the root is the empty *)
(* path) to the node's fields: links[k] of the node at path p is not None  *)
(* exactly when Append(p, k) is in the trie's domain.                      *)
(***************************************************************************)
EXTENDS Integers, Sequences, FiniteSets, TLC

VARIABLES
    pc,       \* where the OrfFinder object is in its life
    genome,   \* self.genome
    root1,    \* the trie under self.root1 (suffixes of genome)
    root2,    \* the trie under self.root2 (suffixes of reversed genome)
    i,        \* the loop variable of the insert loop of __init__ that is running
    query,    \* <<start, end>> of the find call whose result is held
    res,      \* the list find returned
    raised,   \* whether an exception left the last call
    steps,    \* how many calls and iterations the last operation made
    dpc,      \* where the DijkstraGraph object is in its life
    vertices, \* DijkstraGraph.vertices: index -> the Vertex's fields
    dsrc,     \* the src of the dijkstra call (a vertex index)
    ddest,    \* the dest of the dijkstra call (a vertex index)
    dret,     \* what dijkstra returned (a vertex index, or None)
    opc,      \* whether a call of opt_delivery has returned
    ocall,    \* the arguments of that call
    oresult   \* what it returned: cost, path, and whether an exception left it

\* the OrfFinder object and its caller
tvars == <<pc, genome, root1, root2, i, query, res, raised, steps>>
\* the DijkstraGraph object and its caller
dvars == <<dpc, vertices, dsrc, ddest, dret>>
\* a call of opt_delivery
ovars == <<opc, ocall, oresult>>
vars == <<tvars, dvars, ovars>>

----------------------------------------------------------------------------
(* Bounds of the model. *)

\* longest text over the alphabet handed to OrfFinder(...)
MaxLen == 3
\* longest text with characters outside the alphabet handed to OrfFinder(...)
MaxBadLen == 2
\* largest len(start) + len(end) handed to find
MaxQuery == 3
\* most vertices of a DijkstraGraph
MaxVertices == 3
\* most add_edges calls on a DijkstraGraph
MaxEdges == 3
\* largest edge weight
MaxWeight == 2
\* largest profit of a delivery
MaxProfit == 2

----------------------------------------------------------------------------
(* Program constants. *)

\* GenomeNode.__init__(..., size=5): the length of every links list
NodeSize == 5
\* the 65 of ord(char) - 65 + 1
OrdBase == 65

\* uppercase [A-D], as character codes
Alphabet == OrdBase .. (OrdBase + NodeSize - 2)
\* '@' (64) and 'E' (69): the characters next to the alphabet on either side
OutOfAlphabet == {OrdBase - 1, OrdBase + NodeSize - 1}

SeqsUpTo(S, n) == UNION {[1 .. k -> S] : k \in 0 .. n}

\* the texts construction is tried on: well-formed or not
Texts == SeqsUpTo(Alphabet, MaxLen) \cup SeqsUpTo(Alphabet \cup OutOfAlphabet, MaxBadLen)
\* the strings find is tried on: the non-empty ones over the alphabet, and "E",
\* a string with a character that is in no text find can be called on
Keys == (SeqsUpTo(Alphabet, MaxQuery - 1) \ {<<>>}) \cup {<<OrdBase + NodeSize - 1>>}
\* the (start, end) find is tried on
Queries == {q \in Keys \X Keys : Len(q[1]) + Len(q[2]) <= MaxQuery}

WellFormed(s) == Len(s) > 0 /\ \A k \in 1 .. Len(s) : s[k] \in Alphabet

----------------------------------------------------------------------------
(* Python's sequences. *)

\* s, with the reversal forgotten
Reverse_Forgotten(s) == s

\* s[::-1]
Reverse(s) == [k \in 1 .. Len(s) |-> s[Len(s) + 1 - k]]

\* s[a + 1:]: the suffix after the one asked for
Suffix_SkipFirst(s, a) == SubSeq(s, a + 2, Len(s))

\* s[a:] for 0 <= a <= len(s)
Suffix(s, a) == SubSeq(s, a + 1, Len(s))

\* the bound of a slice: a negative one counts from the end, and both are clamped
SliceBound(n, a) == IF a < 0 THEN (IF a + n < 0 THEN 0 ELSE a + n)
                    ELSE (IF a > n THEN n ELSE a)

\* s[a:b]
Slice(s, a, b) == SubSeq(s, SliceBound(Len(s), a) + 1, SliceBound(Len(s), b))

\* lst[k] raises IndexError unless -len(lst) <= k < len(lst)
IndexInRange(k, n) == -n <= k /\ k < n
\* the position lst[k] reads when k is in range
ListIndex(k, n) == IF k < 0 THEN k + n ELSE k

----------------------------------------------------------------------------
(* GenomeNode and the tries. *)

\* GenomeNode(level): data = [], links = [None] * size
GenomeNode(level) == [data |-> <<>>, level |-> level]

\* no trie yet (the attribute is not set)
NoTrie == <<>>

\* a trie of one node, its root
NewTrie == [p \in {<<>>} |-> GenomeNode(0)]

HasLink(trie, cur, index) == Append(cur, index) \in DOMAIN trie

\* current.links[index] = GenomeNode(level=level_count)
SetLink(trie, cur, index, level_count) ==
    [p \in DOMAIN trie \cup {Append(cur, index)} |->
        IF p = Append(cur, index) THEN GenomeNode(level_count) ELSE trie[p]]

\* current.data.append(value + 1): level_count + i for level_count - 1 + i
AppendData_PlusOne(trie, cur, value) ==
    [trie EXCEPT ![cur].data = Append(@, value + 1)]

\* current.data.insert(0, value): the newest value first
AppendData_Front(trie, cur, value) ==
    [trie EXCEPT ![cur].data = <<value>> \o @]

\* current.data.append(value)
AppendData(trie, cur, value) ==
    [trie EXCEPT ![cur].data = Append(@, value)]

\* ord(char) - 65 + 1
LinkIndex(char) == char - OrdBase + 1

\* Python's None, where a vertex index is expected
None == -1

----------------------------------------------------------------------------
(* OrfFinder.insert: one call, with the calls it makes to itself.  The      *)
(* result is the trie the call leaves behind and whether it raised         *)
(* (IndexError, from links[index] with index out of range).                *)

\* insert whose terminal node records the anchor i, not level_count - 1 + i
RECURSIVE insert_TerminalAnchor(_, _, _, _, _)
insert_TerminalAnchor(trie, current, g, level_count, idx) ==
    LET lc == level_count + 1 IN
    IF lc = Len(g) + 1
    THEN LET child == Append(current, 0)
             t1 == IF HasLink(trie, current, 0) THEN trie
                   ELSE SetLink(trie, current, 0, lc)
         IN [trie |-> AppendData(t1, child, idx), raised |-> FALSE, calls |-> 1]
    ELSE LET char == g[lc]
             index == LinkIndex(char)
         IN IF ~IndexInRange(index, NodeSize)
            THEN [trie |-> trie, raised |-> TRUE, calls |-> 1]
            ELSE LET at == ListIndex(index, NodeSize)
                     child == Append(current, at)
                     t1 == IF HasLink(trie, current, at) THEN trie
                           ELSE SetLink(trie, current, at, lc)
                     r == insert_TerminalAnchor(t1, child, g, lc, idx)
                 IN IF r.raised THEN [r EXCEPT !.calls = @ + 1]
                    ELSE [trie |-> AppendData(r.trie, child, lc - 1 + idx),
                          raised |-> FALSE, calls |-> r.calls + 1]

RECURSIVE insert(_, _, _, _, _)
insert(trie, current, g, level_count, idx) ==
    LET lc == level_count + 1 IN
    IF lc = Len(g) + 1
    THEN \* the terminal $, where index = 0
         LET child == Append(current, 0)
             t1 == IF HasLink(trie, current, 0) THEN trie
                   ELSE SetLink(trie, current, 0, lc)
         IN [trie |-> AppendData(t1, child, lc - 1 + idx), raised |-> FALSE,
             calls |-> 1]
    ELSE LET char == g[lc]
             index == LinkIndex(char)
         IN IF ~IndexInRange(index, NodeSize)
            THEN [trie |-> trie, raised |-> TRUE, calls |-> 1]
            ELSE LET at == ListIndex(index, NodeSize)
                     child == Append(current, at)
                     t1 == IF HasLink(trie, current, at) THEN trie
                           ELSE SetLink(trie, current, at, lc)
                     r == insert(t1, child, g, lc, idx)
                 IN IF r.raised THEN [r EXCEPT !.calls = @ + 1]
                    ELSE [trie |-> AppendData(r.trie, child, lc - 1 + idx),
                          raised |-> FALSE, calls |-> r.calls + 1]

----------------------------------------------------------------------------
(* OrfFinder.__init__, one action per step of its two insert loops. *)

\* no operation has run: nothing was counted
NoSteps == [insert |-> 0, find_aux1 |-> 0, find_aux2 |-> 0, pairs |-> 0]

Init ==
    /\ pc = "new"
    /\ genome = <<>>
    /\ root1 = NoTrie
    /\ root2 = NoTrie
    /\ i = 0
    /\ query = <<>>
    /\ res = <<>>
    /\ raised = FALSE
    /\ steps = NoSteps
    /\ dpc = "none"
    /\ vertices = <<>>
    /\ dsrc = None
    /\ ddest = None
    /\ dret = None
    /\ opc = "idle"
    /\ ocall = <<>>
    /\ oresult = <<>>

\* OrfFinder(text), up to the first insert loop
New(text) ==
    /\ pc = "new"
    /\ genome' = text
    /\ root1' = NewTrie
    /\ i' = 0
    /\ pc' = "forward"
    /\ UNCHANGED <<root2, query, res, raised, steps>>
    /\ UNCHANGED <<dvars, ovars>>

\* one iteration of: for i in range(len(genome)): self.insert(current, genome_lst[i], ...)
InsertForward ==
    /\ pc = "forward"
    /\ i < Len(genome)
    /\ LET r == insert(root1, <<>>, Suffix(genome, i), 0, i) IN
         /\ root1' = r.trie
         /\ raised' = r.raised
         /\ pc' = IF r.raised THEN "failed" ELSE pc
         /\ i' = IF r.raised THEN i ELSE i + 1
         /\ steps' = [steps EXCEPT !.insert = r.calls]
    /\ UNCHANGED <<genome, root2, query, res>>
    /\ UNCHANGED <<dvars, ovars>>

\* the first loop is over: self.root2 = GenomeNode(level=0), the reversed suffixes
StartBackward ==
    /\ pc = "forward"
    /\ i = Len(genome)
    /\ root2' = NewTrie
    /\ i' = 0
    /\ pc' = "backward"
    /\ UNCHANGED <<genome, root1, query, res, raised, steps>>
    /\ UNCHANGED <<dvars, ovars>>

\* one iteration of the loop over the suffixes of reversed_genome
InsertBackward ==
    /\ pc = "backward"
    /\ i < Len(genome)
    /\ LET r == insert(root2, <<>>, Suffix(Reverse(genome), i), 0, i) IN
         /\ root2' = r.trie
         /\ raised' = r.raised
         /\ pc' = IF r.raised THEN "failed" ELSE pc
         /\ i' = IF r.raised THEN i ELSE i + 1
         /\ steps' = [steps EXCEPT !.insert = r.calls]
    /\ UNCHANGED <<genome, root1, query, res>>
    /\ UNCHANGED <<dvars, ovars>>

\* __init__ returns: the index exists
Built ==
    /\ pc = "backward"
    /\ i = Len(genome)
    /\ pc' = "ready"
    /\ UNCHANGED <<genome, root1, root2, i, query, res, raised, steps>>
    /\ UNCHANGED <<dvars, ovars>>

----------------------------------------------------------------------------
(* OrfFinder.find_aux: the walk along key.  The result is the trie the     *)
(* walk leaves behind, current.data of the node it ends in, and whether it *)
(* raised (the missing edge's Exception, or IndexError from links[index]). *)

\* the walk that answers a missing edge with an empty list, not an exception
RECURSIVE find_aux_ReturnsEmpty(_, _, _, _)
find_aux_ReturnsEmpty(trie, current, key, level_count) ==
    LET lc == level_count + 1 IN
    IF lc = Len(key) + 1
    THEN [trie |-> trie, data |-> trie[current].data, raised |-> FALSE,
          calls |-> 1]
    ELSE LET char == key[lc]
             index == LinkIndex(char)
         IN IF ~IndexInRange(index, NodeSize)
            THEN [trie |-> trie, data |-> <<>>, raised |-> TRUE, calls |-> 1]
            ELSE LET at == ListIndex(index, NodeSize) IN
                 IF HasLink(trie, current, at)
                 THEN [find_aux_ReturnsEmpty(trie, Append(current, at), key, lc)
                         EXCEPT !.calls = @ + 1]
                 ELSE [trie |-> trie, data |-> <<>>, raised |-> FALSE,
                       calls |-> 1]

\* the walk that, like insert, creates the node of a missing edge and goes on
RECURSIVE find_aux_Creates(_, _, _, _)
find_aux_Creates(trie, current, key, level_count) ==
    LET lc == level_count + 1 IN
    IF lc = Len(key) + 1
    THEN [trie |-> trie, data |-> trie[current].data, raised |-> FALSE,
          calls |-> 1]
    ELSE LET char == key[lc]
             index == LinkIndex(char)
         IN IF ~IndexInRange(index, NodeSize)
            THEN [trie |-> trie, data |-> <<>>, raised |-> TRUE, calls |-> 1]
            ELSE LET at == ListIndex(index, NodeSize) IN
                 IF HasLink(trie, current, at)
                 THEN [find_aux_Creates(trie, Append(current, at), key, lc)
                         EXCEPT !.calls = @ + 1]
                 ELSE [find_aux_Creates(SetLink(trie, current, at, lc),
                                        Append(current, at), key, lc)
                         EXCEPT !.calls = @ + 1]

RECURSIVE find_aux(_, _, _, _)
find_aux(trie, current, key, level_count) ==
    LET lc == level_count + 1 IN
    IF lc = Len(key) + 1
    THEN [trie |-> trie, data |-> trie[current].data, raised |-> FALSE,
          calls |-> 1]
    ELSE LET char == key[lc]
             index == LinkIndex(char)
         IN IF ~IndexInRange(index, NodeSize)
            THEN [trie |-> trie, data |-> <<>>, raised |-> TRUE, calls |-> 1]
            ELSE LET at == ListIndex(index, NodeSize) IN
                 IF HasLink(trie, current, at)
                 THEN [find_aux(trie, Append(current, at), key, lc)
                         EXCEPT !.calls = @ + 1]
                 ELSE [trie |-> trie, data |-> <<>>, raised |-> TRUE,
                       calls |-> 1]

----------------------------------------------------------------------------
(* OrfFinder.find. *)

\* end_index = len(genome) - index2: the index after the first character of
\* the end occurrence, not after its last
EndIndex_NoLen(text, index2, end) == Len(text) - index2

\* end_index = len(genome) - index2 - 1 + len(end)
EndIndex(text, index2, end) == Len(text) - index2 - 1 + Len(end)

\* start_index without the + 1: the index before the occurrence
StartIndex_NoPlusOne(index1, start) == index1 - Len(start)

\* start_index = index1 - len(start) + 1
StartIndex(index1, start) == index1 - Len(start) + 1

\* the test with < for <=: a start and an end that touch are dropped
KeepPair_Strict(start_index, end_index, start, end) ==
    /\ end_index > start_index
    /\ Len(start) + Len(end) < end_index - start_index

\* the test without its second half: overlapping pairs are kept
KeepPair_Overlap(start_index, end_index, start, end) ==
    end_index > start_index

\* the test that keeps a pair: no overlap, and a non-empty range
KeepPair(start_index, end_index, start, end) ==
    /\ end_index > start_index
    /\ Len(start) + Len(end) <= end_index - start_index

\* the inner loop over reversed(matching_suffixes): the break then meets the
\* smallest end first
RECURSIVE InnerLoop_Reversed(_, _, _, _, _, _, _)
InnerLoop_Reversed(text, start, end, start_index, matching_suffixes, m, acc) ==
    IF m > Len(matching_suffixes) THEN acc
    ELSE LET end_index ==
               EndIndex(text, matching_suffixes[Len(matching_suffixes) + 1 - m], end)
         IN IF KeepPair(start_index, end_index, start, end)
            THEN InnerLoop_Reversed(text, start, end, start_index,
                                    matching_suffixes, m + 1,
                                    [res |-> Append(acc.res,
                                                    Slice(text, start_index, end_index)),
                                     pairs |-> acc.pairs + 1])
            ELSE [acc EXCEPT !.pairs = @ + 1]

\* for index2 in matching_suffixes, from its m-th element on: append or break.
\* acc is the list res so far and the number of pairs looked at so far
RECURSIVE InnerLoop(_, _, _, _, _, _, _)
InnerLoop(text, start, end, start_index, matching_suffixes, m, acc) ==
    IF m > Len(matching_suffixes) THEN acc
    ELSE LET end_index == EndIndex(text, matching_suffixes[m], end) IN
         IF KeepPair(start_index, end_index, start, end)
         THEN InnerLoop(text, start, end, start_index, matching_suffixes, m + 1,
                        [res |-> Append(acc.res, Slice(text, start_index, end_index)),
                         pairs |-> acc.pairs + 1])
         ELSE \* break: this pair was looked at, the rest are not
              [acc EXCEPT !.pairs = @ + 1]

\* for index1 in matching_prefixes, from its k-th element on
RECURSIVE OuterLoop(_, _, _, _, _, _, _)
OuterLoop(text, start, end, matching_prefixes, matching_suffixes, k, acc) ==
    IF k > Len(matching_prefixes) THEN acc
    ELSE OuterLoop(text, start, end, matching_prefixes, matching_suffixes, k + 1,
                   InnerLoop(text, start, end,
                             StartIndex(matching_prefixes[k], start),
                             matching_suffixes, 1, acc))

\* find(start, end) on the object (text, t1, t2): what it returns, whether an
\* exception leaves it, and the two tries afterwards
find(text, t1, t2, start, end) ==
    LET f == find_aux(t1, <<>>, start, 0) IN
    IF f.raised
    THEN [res |-> <<>>, raised |-> FALSE, root1 |-> f.trie, root2 |-> t2,
          steps |-> [find_aux1 |-> f.calls, find_aux2 |-> 0, pairs |-> 0]]
    ELSE
    LET b == find_aux(t2, <<>>, Reverse(end), 0)
        walked == [find_aux1 |-> f.calls, find_aux2 |-> b.calls, pairs |-> 0]
    IN
    IF b.raised
    THEN [res |-> <<>>, raised |-> FALSE, root1 |-> f.trie, root2 |-> b.trie,
          steps |-> walked]
    ELSE
    IF Len(f.data) = 0 \/ Len(b.data) = 0
    THEN \* matching_prefixes[0] or matching_suffixes[0]: IndexError
         [res |-> <<>>, raised |-> TRUE, root1 |-> f.trie, root2 |-> b.trie,
          steps |-> walked]
    ELSE
    LET min_prefix_index == f.data[1] - Len(start) + 1
        max_suffix_index == Len(text) - b.data[1] - 1 + Len(end)
    IN IF max_suffix_index <= min_prefix_index
       THEN [res |-> <<>>, raised |-> FALSE, root1 |-> f.trie, root2 |-> b.trie,
             steps |-> walked]
       ELSE LET loop == OuterLoop(text, start, end, f.data, b.data, 1,
                                  [res |-> <<>>, pairs |-> 0])
            IN [res |-> loop.res, raised |-> FALSE,
                root1 |-> f.trie, root2 |-> b.trie,
                steps |-> [walked EXCEPT !.pairs = loop.pairs]]

\* a call of find(start, end) on the built index
Find(start, end) ==
    /\ pc = "ready"
    /\ LET r == find(genome, root1, root2, start, end) IN
         /\ res' = r.res
         /\ raised' = r.raised
         /\ root1' = r.root1
         /\ root2' = r.root2
         /\ steps' = [insert |-> steps.insert, find_aux1 |-> r.steps.find_aux1,
                       find_aux2 |-> r.steps.find_aux2, pairs |-> r.steps.pairs]
    /\ query' = <<start, end>>
    /\ pc' = "returned"
    /\ UNCHANGED <<genome, i>>
    /\ UNCHANGED <<dvars, ovars>>

\* the caller is done with the list; the index waits for the next call
NextCall ==
    /\ pc = "returned"
    /\ pc' = "ready"
    /\ query' = <<>>
    /\ res' = <<>>
    /\ raised' = FALSE
    /\ steps' = [NoSteps EXCEPT !.insert = steps.insert]
    /\ UNCHANGED <<genome, root1, root2, i>>
    /\ UNCHANGED <<dvars, ovars>>

Next ==
    \/ \E text \in Texts : New(text)
    \/ InsertForward
    \/ StartBackward
    \/ InsertBackward
    \/ Built
    \/ \E q \in Queries : Find(q[1], q[2])
    \/ NextCall

Spec == Init /\ [][Next]_vars

\* __init__ is sequential code: once called, its loops keep taking their steps
Construction == InsertForward \/ StartBackward \/ InsertBackward \/ Built
SpecTermination == Spec /\ WF_vars(Construction)

----------------------------------------------------------------------------
(* src/dijkstra.py: MinHeap, Vertex, Edge, DijkstraGraph.                  *)

\* float("Inf"): above every distance a run can compute
Inf == 1000000

\* Vertex(index): no edges, distance Inf, not discovered, not visited, no previous
Vertex(index) ==
    [index |-> index, edges |-> <<>>, distance |-> Inf,
     discovered |-> FALSE, visited |-> FALSE, previous |-> None]

\* Edge(u, v, w), u and v as vertex indices
Edge(u, v, w) == [u |-> u, v |-> v, w |-> w]

\* [val, vertex] < [val2, vertex2]: lists compare by their first difference,
\* vertices by Vertex.__lt__, which is by index
EntryLess(a, b) == a[1] < b[1] \/ (a[1] = b[1] /\ a[2] < b[2])

\* MinHeap.push(val, src): heapq.heappush(self.heap, [val, src])
push(heap, val, src) == Append(heap, <<val, src>>)

\* the place of the entry MinHeap.pop() returns: a smallest one
MinPlace(heap) ==
    CHOOSE k \in 1 .. Len(heap) :
        /\ \A j \in 1 .. Len(heap) : ~EntryLess(heap[j], heap[k])
        /\ \A j \in 1 .. (k - 1) : heap[j] # heap[k]

\* MinHeap.pop(): heapq.heappop(self.heap), the entry and the heap left
pop(heap) ==
    LET k == MinPlace(heap) IN
    [entry |-> heap[k],
     heap |-> SubSeq(heap, 1, k - 1) \o SubSeq(heap, k + 1, Len(heap))]

\* the relaxation without its elif: a vertex keeps the distance it was
\* discovered with
RECURSIVE Relax_NoUpdate(_, _, _, _)
Relax_NoUpdate(vs, heap, u, k) ==
    IF k > Len(vs[u].edges) THEN [vertices |-> vs, heap |-> heap]
    ELSE LET edge == vs[u].edges[k]
             v == edge.v
             d == vs[u].distance + edge.w
         IN IF ~vs[v].discovered
            THEN Relax_NoUpdate([vs EXCEPT ![v].discovered = TRUE,
                                           ![v].distance = d,
                                           ![v].previous = u],
                                push(heap, d, v), u, k + 1)
            ELSE Relax_NoUpdate(vs, heap, u, k + 1)

\* for edge in u.edges, from the k-th edge on: the relaxation of dijkstra.
\* vs is the vertices' fields, heap the discovered heap.
RECURSIVE Relax(_, _, _, _)
Relax(vs, heap, u, k) ==
    IF k > Len(vs[u].edges) THEN [vertices |-> vs, heap |-> heap]
    ELSE LET edge == vs[u].edges[k]
             v == edge.v
             d == vs[u].distance + edge.w
         IN IF ~vs[v].discovered
            THEN Relax([vs EXCEPT ![v].discovered = TRUE,
                                  ![v].distance = d,
                                  ![v].previous = u],
                       push(heap, d, v), u, k + 1)
            ELSE IF ~vs[v].visited /\ vs[v].distance > d
            THEN Relax([vs EXCEPT ![v].distance = d, ![v].previous = u],
                       push(heap, d, v), u, k + 1)
            ELSE Relax(vs, heap, u, k + 1)

\* while len(discovered) > 0: pop, visit, return at dest, relax
RECURSIVE DijkstraLoop(_, _, _)
DijkstraLoop(vs, heap, dest) ==
    IF Len(heap) = 0 THEN [vertices |-> vs, ret |-> None]
    ELSE LET min_vertex == pop(heap)
             u == min_vertex.entry[2]
             vs1 == [vs EXCEPT ![u].visited = TRUE]
         IN IF u = dest THEN [vertices |-> vs1, ret |-> u]
            ELSE LET r == Relax(vs1, min_vertex.heap, u, 1)
                 IN DijkstraLoop(r.vertices, r.heap, dest)

\* DijkstraGraph.dijkstra(src, dest): the vertices afterwards and the vertex returned
dijkstra(vs, src, dest) ==
    LET vs0 == [vs EXCEPT ![src].distance = 0]
    IN DijkstraLoop(vs0, push(<<>>, 0, src), dest)

\* DijkstraGraph(v)
DijkstraGraph(v) ==
    /\ dpc = "none"
    /\ vertices' = [index \in 0 .. (v - 1) |-> Vertex(index)]
    /\ dpc' = "graph"
    /\ UNCHANGED <<dsrc, ddest, dret>>
    /\ UNCHANGED <<tvars, ovars>>

\* graph.add_edges(u, v, w): self.vertices[u].add_edges(...)
add_edges(u, v, w) ==
    /\ dpc = "graph"
    /\ vertices' = [vertices EXCEPT ![u].edges = Append(@, Edge(u, v, w))]
    /\ UNCHANGED <<dpc, dsrc, ddest, dret>>
    /\ UNCHANGED <<tvars, ovars>>

\* the number of add_edges calls so far
EdgeCount == Cardinality({uk \in (DOMAIN vertices) \X (1 .. MaxEdges) :
                            uk[2] <= Len(vertices[uk[1]].edges)})

\* graph.dijkstra(graph.vertices[src], graph.vertices[dest]) on fresh vertices
Dijkstra(src, dest) ==
    /\ dpc = "graph"
    /\ LET r == dijkstra(vertices, src, dest) IN
         /\ vertices' = r.vertices
         /\ dret' = r.ret
    /\ dsrc' = src
    /\ ddest' = dest
    /\ dpc' = "done"
    /\ UNCHANGED <<tvars, ovars>>

NextDijkstra ==
    \/ \E v \in 1 .. MaxVertices : DijkstraGraph(v)
    \/ \E u \in DOMAIN vertices, v \in DOMAIN vertices, w \in 0 .. MaxWeight :
         EdgeCount < MaxEdges /\ add_edges(u, v, w)
    \/ \E src \in DOMAIN vertices, dest \in DOMAIN vertices : Dijkstra(src, dest)

SpecDijkstra == Init /\ [][NextDijkstra]_vars

----------------------------------------------------------------------------
(* src/dijkstra.py: opt_delivery. *)

\* dijkstra_graph.add_edges(road[0], road[1], road[2]) and
\* dijkstra_graph.add_edges(road[1], road[0], road[2])
add_road(vs, road) ==
    LET vs1 == [vs EXCEPT ![road[1]].edges = Append(@, Edge(road[1], road[2], road[3]))]
    IN [vs1 EXCEPT ![road[2]].edges = Append(@, Edge(road[2], road[1], road[3]))]

\* for road in roads, from the k-th road on
RECURSIVE add_roads(_, _, _)
add_roads(vs, roads, k) ==
    IF k > Len(roads) THEN vs ELSE add_roads(add_road(vs, roads[k]), roads, k + 1)

\* DijkstraGraph(n) with both directions of every road added
RoadGraph(n, roads) ==
    add_roads([index \in 0 .. (n - 1) |-> Vertex(index)], roads, 1)

\* while res is not None and res != vertices[stop]:
\*     res_order.append(res.index); res = res.previous
\* the list afterwards and the vertex the loop stopped at
RECURSIVE Backtrack(_, _, _, _)
Backtrack(vs, v, stop, res_order) ==
    IF v = None \/ v = stop THEN [res_order |-> res_order, last |-> v]
    ELSE Backtrack(vs, vs[v].previous, stop, Append(res_order, v))

\* an exception leaves opt_delivery
Raises == [cost |-> 0, path |-> <<>>, raised |-> TRUE]

\* opt_delivery(n, roads, start, end, delivery)
opt_delivery(n, roads, start, end, delivery) ==
    LET without == dijkstra(RoadGraph(n, roads), start, end)
        before == dijkstra(RoadGraph(n, roads), start, delivery[1])
        during == dijkstra(RoadGraph(n, roads), delivery[1], delivery[2])
        after == dijkstra(RoadGraph(n, roads), delivery[2], end)
    IN
    IF without.ret = None THEN Raises   \* None.distance
    ELSE
    LET cost_without_delivery == without.vertices[without.ret].distance
        back0 == Backtrack(without.vertices, without.ret, start, <<>>)
    IN
    IF back0.last = None THEN Raises    \* None.index
    ELSE
    IF before.ret = None \/ during.ret = None \/ after.ret = None THEN Raises
    ELSE
    LET delivery_total_cost == before.vertices[before.ret].distance
                               + during.vertices[during.ret].distance
                               + after.vertices[after.ret].distance
        cost_with_delivery == delivery_total_cost - delivery[3]
    IN
    IF cost_with_delivery < cost_without_delivery
    THEN LET back3 == Backtrack(after.vertices, after.ret, delivery[2], <<>>)
             back2 == Backtrack(during.vertices, during.ret, delivery[1],
                                back3.res_order)
             back1 == Backtrack(before.vertices, before.ret, start,
                                back2.res_order)
         IN IF back1.last = None THEN Raises
            ELSE [cost |-> cost_with_delivery,
                  path |-> Reverse(Append(back1.res_order, back1.last)),
                  raised |-> FALSE]
    ELSE [cost |-> cost_without_delivery,
          path |-> Reverse(Append(back0.res_order, back0.last)),
          raised |-> FALSE]

\* the roads between two different cities u < v of n, as (u, v, w)
RoadChoices(n) ==
    {r \in (0 .. (n - 1)) \X (0 .. (n - 1)) \X (0 .. MaxWeight) : r[1] < r[2]}

\* every city of n is reached from city 0 by the roads
RECURSIVE Reached(_, _)
Reached(roads, k) ==
    IF k = 0 THEN {0}
    ELSE LET R == Reached(roads, k - 1) IN
         R \cup {roads[j][2] : j \in {x \in 1 .. Len(roads) : roads[x][1] \in R}}
           \cup {roads[j][1] : j \in {x \in 1 .. Len(roads) : roads[x][2] \in R}}

Connected(n, roads) == Reached(roads, n) = 0 .. (n - 1)

\* the lists of roads of a simple, connected graph of n cities, in any order.
\* A road is listed as (u, v, w) with u < v: the two add_edges calls of a road
\* append to the lists of two different vertices, so (v, u, w) builds the same
\* graph.
RoadLists(n) ==
    {roads \in UNION {[1 .. k -> RoadChoices(n)] : k \in 0 .. ((n * (n - 1)) \div 2)} :
        /\ \A a \in 1 .. Len(roads) : \A b \in 1 .. Len(roads) :
             (a # b) => (roads[a][1] # roads[b][1] \/ roads[a][2] # roads[b][2])
        /\ Connected(n, roads)}

\* a call of opt_delivery(n, roads, start, end, delivery)
OptDelivery(n, roads, start, end, delivery) ==
    /\ opc = "idle"
    /\ ocall' = [n |-> n, roads |-> roads, start |-> start, end |-> end,
                 delivery |-> delivery]
    /\ oresult' = opt_delivery(n, roads, start, end, delivery)
    /\ opc' = "returned"
    /\ UNCHANGED <<tvars, dvars>>

\* the caller is done with the result; the next call can be made
OptNextCall ==
    /\ opc = "returned"
    /\ opc' = "idle"
    /\ ocall' = <<>>
    /\ oresult' = <<>>
    /\ UNCHANGED <<tvars, dvars>>

NextDelivery ==
    \/ /\ opc = "idle"
       /\ \E n \in 1 .. MaxVertices :
            \E roads \in RoadLists(n) :
              \E start \in 0 .. (n - 1), end \in 0 .. (n - 1) :
                \E delivery \in (0 .. (n - 1)) \X (0 .. (n - 1)) \X (0 .. MaxProfit) :
                  OptDelivery(n, roads, start, end, delivery)
    \/ OptNextCall

SpecDelivery == Init /\ [][NextDelivery]_vars

----------------------------------------------------------------------------
(* What the properties below are stated with: substrings and occurrences   *)
(* of the text by position, independent of the tries.                      *)

Ready == pc \in {"ready", "returned"}
Returned == pc = "returned"
QStart == query[1]
QEnd == query[2]

\* T[a:b] for 0 <= a <= b <= len(T)
Sub(T, a, b) == SubSeq(T, a + 1, b)

\* s occurs in T at position a (0-based): T[a:a+len(s)] = s
OccursAt(T, s, a) ==
    /\ 0 <= a
    /\ a + Len(s) <= Len(T)
    /\ Sub(T, a, a + Len(s)) = s

Occurrences(T, s) == {a \in 0 .. Len(T) : OccursAt(T, s, a)}

\* the non-empty contiguous substrings of T
Substrings(T) ==
    {Sub(T, a, b) : a \in 0 .. Len(T), b \in 0 .. Len(T)} \ {<<>>}

\* the pairs (i, j) of the result: start at i, end up to j, no overlap
ValidPairs(T, s, e) ==
    {pr \in (0 .. Len(T)) \X (0 .. Len(T)) :
        /\ OccursAt(T, s, pr[1])
        /\ OccursAt(T, e, pr[2] - Len(e))
        /\ pr[2] - pr[1] >= Len(s) + Len(e)}

\* the pairs that match both strings but share a character position
OverlappingPairs(T, s, e) ==
    {pr \in (0 .. Len(T)) \X (0 .. Len(T)) :
        /\ OccursAt(T, s, pr[1])
        /\ OccursAt(T, e, pr[2] - Len(e))
        /\ pr[2] - pr[1] < Len(s) + Len(e)}

Count(seq, x) == Cardinality({k \in 1 .. Len(seq) : seq[k] = x})

\* the path of link indices that spells s
PathOf(s) == [k \in 1 .. Len(s) |-> LinkIndex(s[k])]

\* the walk along key leaves the trie: some edge of it is missing
MissingEdge(trie, key) ==
    \E k \in 1 .. Len(key) : SubSeq(PathOf(key), 1, k) \notin DOMAIN trie

\* a call of find on a well-formed text with well-formed arguments has returned
ContractCall ==
    /\ Returned
    /\ WellFormed(genome)
    /\ WellFormed(QStart)
    /\ WellFormed(QEnd)

----------------------------------------------------------------------------
\* C1: on a non-empty text over the alphabet, find(start, end) returns, as a
\* multiset, exactly one copy of T[i:j] for each pair (i, j) with start at i,
\* end ending at j and j - i >= len(start) + len(end); nothing is missing and
\* nothing else is returned.
C1_FindExact ==
    ContractCall =>
        LET pairs == ValidPairs(genome, QStart, QEnd) IN
        /\ Len(res) = Cardinality(pairs)
        /\ \A pr \in pairs :
             Count(res, Sub(genome, pr[1], pr[2])) =
               Cardinality({p2 \in pairs :
                              Sub(genome, p2[1], p2[2]) = Sub(genome, pr[1], pr[2])})

\* text "AAA", find("A", "A"): "AA" twice and "AAA" once
C1_Witness ==
    /\ ContractCall
    /\ genome = <<65, 65, 65>>
    /\ query = << <<65>>, <<65>> >>
    /\ Count(res, <<65, 65>>) = 2
    /\ Count(res, <<65, 65, 65>>) = 1
    /\ Len(res) = 3

\* C2: every string find returns is a contiguous substring of the text that
\* has start as a literal prefix and end as a literal suffix.
C2_PrefixSuffix ==
    ContractCall =>
        \A k \in 1 .. Len(res) :
            /\ res[k] \in Substrings(genome)
            /\ Len(res[k]) >= Len(QStart)
            /\ Len(res[k]) >= Len(QEnd)
            /\ SubSeq(res[k], 1, Len(QStart)) = QStart
            /\ SubSeq(res[k], Len(res[k]) - Len(QEnd) + 1, Len(res[k])) = QEnd

\* a call with two-character start and a different end that returned something
C2_Witness ==
    /\ ContractCall
    /\ Len(QStart) = 2
    /\ QEnd # QStart
    /\ Len(res) > 0

\* C3: find never returns a string shorter than len(start) + len(end): a
\* candidate whose start and end occurrences share a position is not emitted.
C3_NoOverlap ==
    ContractCall =>
        /\ \A k \in 1 .. Len(res) : Len(res[k]) >= Len(QStart) + Len(QEnd)
        /\ \A pr \in OverlappingPairs(genome, QStart, QEnd) :
             pr[2] > pr[1] =>
               Sub(genome, pr[1], pr[2]) \notin {res[k] : k \in 1 .. Len(res)}

\* a call where overlapping candidates exist beside the strings returned
C3_Witness ==
    /\ ContractCall
    /\ \E pr \in OverlappingPairs(genome, QStart, QEnd) : pr[2] > pr[1]
    /\ Len(QStart) + Len(QEnd) = 3
    /\ Len(res) > 0

\* C4: if the walk of the forward trie along start, or of the backward trie
\* along reversed end, meets a missing edge, find returns the empty list and
\* no exception reaches the caller.
C4_MissingEdgeEmpty ==
    (Returned /\ (MissingEdge(root1, QStart) \/ MissingEdge(root2, Reverse(QEnd))))
        => (res = <<>> /\ ~raised)

\* start is in the text, and end has a character of the alphabet that is not
C4_Witness ==
    /\ ContractCall
    /\ ~MissingEdge(root1, QStart)
    /\ MissingEdge(root2, Reverse(QEnd))
    /\ \E k \in 1 .. Len(QEnd) : \A j \in 1 .. Len(genome) : genome[j] # QEnd[k]
    /\ res = <<>>
    /\ ~raised

\* C5: construction fails whenever the text is empty or has a character
\* outside the alphabet: no index is produced for such a text.
C5_BadTextNoIndex ==
    Ready => WellFormed(genome)

\* C6: once construction is complete, a call of find leaves both tries (every
\* node's children and occurrence list) and the stored text as they were.
C6_FindFrame ==
    [][Ready => (root1' = root1 /\ root2' = root2 /\ genome' = genome)]_vars

\* a call that walked both tries to the end, on tries that have nodes to change
C6_Witness ==
    /\ ContractCall
    /\ Len(res) > 0
    /\ Cardinality(DOMAIN root1) > 3
    /\ Cardinality(DOMAIN root2) > 3

\* C7 to C9 are about the tries of a built index.  They are stated where the
\* index waits for a call: by C6 a call changes neither trie, and NextCall
\* brings every index that answered a call back to such a state.

\* the paths of a trie that end with the terminator edge
TerminatorPaths(trie) ==
    {p \in DOMAIN trie : Len(p) > 0 /\ p[Len(p)] = 0}

\* C7: after building from a non-empty text T over the alphabet, every suffix
\* T[k-1:] is spelled by a path of the forward trie that ends with the
\* terminator edge, every suffix of reversed T by such a path of the backward
\* trie, and each trie has exactly len(T) terminator-ending paths.
C7_SuffixPaths ==
    (pc = "ready" /\ WellFormed(genome)) =>
        /\ \A k \in 1 .. Len(genome) :
             /\ Append(PathOf(Sub(genome, k - 1, Len(genome))), 0) \in DOMAIN root1
             /\ Append(PathOf(Sub(Reverse(genome), k - 1, Len(genome))), 0)
                  \in DOMAIN root2
        /\ Cardinality(TerminatorPaths(root1)) = Len(genome)
        /\ Cardinality(TerminatorPaths(root2)) = Len(genome)

\* an index built from a text of the longest length with a repeated character,
\* so that suffixes share edges
C7_Witness ==
    /\ pc = "ready"
    /\ WellFormed(genome)
    /\ Len(genome) = MaxLen
    /\ genome[1] = genome[Len(genome)]
    /\ Cardinality(TerminatorPaths(root1)) = MaxLen

\* the values of a list, and that none is there twice
Values(seq) == {seq[k] : k \in 1 .. Len(seq)}
NoRepeat(seq) == Cardinality(Values(seq)) = Len(seq)

\* C8: after construction, the walk of the forward trie along a non-empty s
\* that occurs in T ends in a node whose occurrence list holds i + len(s) - 1
\* for every position i at which s occurs, once each, and nothing else.
C8_ForwardOccurrences ==
    (pc = "ready" /\ WellFormed(genome)) =>
        \A s \in Substrings(genome) :
            /\ PathOf(s) \in DOMAIN root1
            /\ NoRepeat(root1[PathOf(s)].data)
            /\ Values(root1[PathOf(s)].data) =
                 {a + Len(s) - 1 : a \in Occurrences(genome, s)}

\* a string of two characters that occurs twice in the text
C8_Witness ==
    /\ pc = "ready"
    /\ WellFormed(genome)
    /\ \E s \in Substrings(genome) :
         /\ Len(s) = 2
         /\ Cardinality(Occurrences(genome, s)) = 2
         /\ Len(root1[PathOf(s)].data) = 2

\* C9: after construction, the walk of the backward trie along reversed s, for
\* a non-empty s that occurs in T, ends in a node whose occurrence list holds
\* one value q per occurrence of s: q is where that occurrence of reversed s
\* ends in reversed T, and len(T) - q - 1 is where the occurrence starts in T.
C9_BackwardOccurrences ==
    (pc = "ready" /\ WellFormed(genome)) =>
        \A s \in Substrings(genome) :
            /\ PathOf(Reverse(s)) \in DOMAIN root2
            /\ LET data == root2[PathOf(Reverse(s))].data IN
               /\ NoRepeat(data)
               /\ Len(data) = Cardinality(Occurrences(genome, s))
               /\ {Len(genome) - q - 1 : q \in Values(data)} = Occurrences(genome, s)
               /\ \A q \in Values(data) :
                    OccursAt(Reverse(genome), Reverse(s), q - Len(s) + 1)

\* a string of two different characters that occurs in a text that is not a
\* palindrome: the two tries differ
C9_Witness ==
    /\ pc = "ready"
    /\ WellFormed(genome)
    /\ Reverse(genome) # genome
    /\ \E s \in Substrings(genome) :
         /\ Len(s) = 2
         /\ s[1] # s[2]
         /\ Len(root2[PathOf(Reverse(s))].data) >= 1

----------------------------------------------------------------------------
(* Shortest paths by definition, for the properties of dijkstra. *)

\* the edges of the graph: every Edge of every vertex
AllEdges == UNION {{vertices[u].edges[k] : k \in 1 .. Len(vertices[u].edges)} :
                     u \in DOMAIN vertices}

Min(S) == CHOOSE x \in S : \A y \in S : x <= y

\* the least weight of a path of at most k edges from src to v (Inf: none)
RECURSIVE PathCost(_, _, _)
PathCost(src, v, k) ==
    IF k = 0 THEN (IF v = src THEN 0 ELSE Inf)
    ELSE Min({PathCost(src, v, k - 1)} \cup
             {PathCost(src, e.u, k - 1) + e.w :
                e \in {x \in AllEdges : x.v = v /\ PathCost(src, x.u, k - 1) < Inf}})

\* the minimum total weight over all paths from src to v
MinCost(src, v) == PathCost(src, v, Cardinality(DOMAIN vertices))

\* following .previous from v reaches src in at most k steps, along edges
\* of the graph whose weights sum to d
RECURSIVE ChainReaches(_, _, _, _)
ChainReaches(src, v, d, k) ==
    \/ v = src /\ d = 0
    \/ /\ v # src
       /\ k > 0
       /\ vertices[v].previous # None
       /\ \E e \in AllEdges :
            /\ e.u = vertices[v].previous
            /\ e.v = v
            /\ ChainReaches(src, e.u, d - e.w, k - 1)

\* a call of dijkstra has returned, and dest was reachable from src
ReachableCall == dpc = "done" /\ MinCost(dsrc, ddest) < Inf

\* C10: with non-negative weights, fresh vertices and dest reachable from src,
\* dijkstra(src, dest) returns dest with dest.distance the minimum total weight
\* over all paths from src to dest, and following .previous from dest reaches
\* src along edges of the graph whose weights sum to dest.distance.
C10_ShortestPath ==
    ReachableCall =>
        /\ dret = ddest
        /\ vertices[ddest].distance = MinCost(dsrc, ddest)
        /\ ChainReaches(dsrc, ddest, vertices[ddest].distance,
                        Cardinality(DOMAIN vertices))

----------------------------------------------------------------------------
(* Cheapest routes by definition, for the properties of opt_delivery. *)

\* the costs of the roads between cities a and b
RoadCosts(roads, a, b) ==
    {roads[j][3] : j \in {x \in 1 .. Len(roads) :
                            \/ (roads[x][1] = a /\ roads[x][2] = b)
                            \/ (roads[x][1] = b /\ roads[x][2] = a)}}

\* for every city b, the least cost of a route of at most k roads from a to b
\* (Inf: none)
RECURSIVE RouteCost(_, _, _, _)
RouteCost(n, roads, a, k) ==
    IF k = 0 THEN [b \in 0 .. (n - 1) |-> IF a = b THEN 0 ELSE Inf]
    ELSE LET D == RouteCost(n, roads, a, k - 1) IN
         [b \in 0 .. (n - 1) |->
            Min({D[b]} \cup
                UNION {{D[c] + w : w \in RoadCosts(roads, c, b)} :
                         c \in {x \in 0 .. (n - 1) : D[x] < Inf}})]

\* d(a, b): the shortest-path cost between cities a and b
ShortestCost(n, roads, a, b) == RouteCost(n, roads, a, n)[b]

\* the cost of the roads along path from its k-th city on; Inf where two
\* consecutive cities are not joined by a road
RECURSIVE PathRoadCost(_, _, _)
PathRoadCost(roads, path, k) ==
    IF k >= Len(path) THEN 0
    ELSE IF RoadCosts(roads, path[k], path[k + 1]) = {} THEN Inf
    ELSE Min(RoadCosts(roads, path[k], path[k + 1])) + PathRoadCost(roads, path, k + 1)

\* the cost of going from start to end directly
DirectCost ==
    ShortestCost(ocall.n, ocall.roads, ocall.start, ocall.end)

\* the cost of going by the pickup city and then the delivery city, less the profit
DetourCost ==
    ShortestCost(ocall.n, ocall.roads, ocall.start, ocall.delivery[1])
    + ShortestCost(ocall.n, ocall.roads, ocall.delivery[1], ocall.delivery[2])
    + ShortestCost(ocall.n, ocall.roads, ocall.delivery[2], ocall.end)
    - ocall.delivery[3]

\* C11: on a simple connected undirected graph with non-negative road costs,
\* opt_delivery returns (cost, path) with cost the smaller of d(start, end) and
\* d(start, pickup) + d(pickup, deliver) + d(deliver, end) - profit; path
\* begins with start, ends with end, joins consecutive cities by roads, and
\* its road costs (less the profit when the delivery route is the cheaper one,
\* and path then visits pickup and after it deliver) sum to cost.
C11_OptDelivery ==
    (opc = "returned") =>
        LET path == oresult.path
            direct == DirectCost
            detour == DetourCost
            chosen == detour < direct
        IN /\ ~oresult.raised
           /\ oresult.cost = Min({direct, detour})
           /\ Len(path) >= 1
           /\ path[1] = ocall.start
           /\ path[Len(path)] = ocall.end
           /\ \A k \in 1 .. (Len(path) - 1) :
                RoadCosts(ocall.roads, path[k], path[k + 1]) # {}
           /\ PathRoadCost(ocall.roads, path, 1)
                - (IF chosen THEN ocall.delivery[3] ELSE 0) = oresult.cost
           /\ chosen =>
                \E a \in 1 .. Len(path) : \E b \in a .. Len(path) :
                    path[a] = ocall.delivery[1] /\ path[b] = ocall.delivery[2]

\* the delivery route is the cheaper one, and it passes a city twice
C11_Witness ==
    /\ opc = "returned"
    /\ ~oresult.raised
    /\ DetourCost < DirectCost
    /\ oresult.cost = DetourCost
    /\ ocall.delivery[1] # ocall.delivery[2]
    /\ \E a \in 1 .. Len(oresult.path) : \E b \in 1 .. Len(oresult.path) :
         a # b /\ oresult.path[a] = oresult.path[b]

----------------------------------------------------------------------------
(* The pairs find goes through. *)

\* the occurrence list at the end of the walk along key; empty when the walk
\* leaves the trie
ListAt(trie, key) ==
    IF PathOf(key) \in DOMAIN trie THEN trie[PathOf(key)].data ELSE <<>>

\* matching_prefixes and matching_suffixes of the call that returned
PrefixList == ListAt(root1, QStart)
SuffixList == ListAt(root2, Reverse(QEnd))

\* the pair (P[pq[1]], Q[pq[2]]) is kept when substringEnd is len(text) - q + off
PairKept(pq, off) ==
    LET substringStart == PrefixList[pq[1]] - Len(QStart) + 1
        substringEnd == Len(genome) - SuffixList[pq[2]] + off
    IN /\ substringEnd > substringStart
       /\ substringEnd - substringStart >= Len(QStart) + Len(QEnd)

\* text[substringStart:substringEnd] of that pair
PairString(pq, off) ==
    Sub(genome, PrefixList[pq[1]] - Len(QStart) + 1,
        Len(genome) - SuffixList[pq[2]] + off)

\* res holds text[substringStart:substringEnd] once for every kept pair of
\* P x Q, and nothing else
PairRule(off) ==
    LET kept == {pq \in (1 .. Len(PrefixList)) \X (1 .. Len(SuffixList)) :
                   PairKept(pq, off)}
    IN /\ Len(res) = Cardinality(kept)
       /\ \A pq \in kept :
            Count(res, PairString(pq, off)) =
              Cardinality({p2 \in kept : PairString(p2, off) = PairString(pq, off)})

\* a call that reached the pair loop: both walks ended in a node
BothFound ==
    /\ ContractCall
    /\ PathOf(QStart) \in DOMAIN root1
    /\ PathOf(Reverse(QEnd)) \in DOMAIN root2

\* C12 as stated: for every pair (p, q), substringStart = p - len(start) + 1,
\* substringEnd = len(text) - q, and text[substringStart:substringEnd] is
\* emitted iff substringEnd > substringStart and substringEnd - substringStart
\* >= len(start) + len(end).
C12_AsStated ==
    BothFound => PairRule(0)

\* C12 (amended): for every pair (p, q), substringStart = p - len(start) + 1,
\* substringEnd = len(text) - q - 1 + len(end), and
\* text[substringStart:substringEnd] is emitted iff substringEnd >
\* substringStart and substringEnd - substringStart >= len(start) + len(end).
C12_PairRule ==
    BothFound => PairRule(Len(QEnd) - 1)

\* an end of two characters, found, and a string returned
C12_Witness ==
    /\ BothFound
    /\ Len(QEnd) = 2
    /\ Len(res) > 0

\* the scan of all |P| * |Q| pairs in the order of the two loops, with no
\* return up front and no break, from the k-th prefix and m-th suffix on
RECURSIVE ExhaustiveScan(_, _, _)
ExhaustiveScan(k, m, acc) ==
    IF k > Len(PrefixList) THEN acc
    ELSE IF m > Len(SuffixList) THEN ExhaustiveScan(k + 1, 1, acc)
    ELSE ExhaustiveScan(k, m + 1,
             IF PairKept(<<k, m>>, Len(QEnd) - 1)
             THEN Append(acc, PairString(<<k, m>>, Len(QEnd) - 1))
             ELSE acc)

\* C13: the early exits of find lose nothing: for all texts and queries over
\* the alphabet, what find returns (with its return up front and its break)
\* equals, as a multiset, what the exhaustive scan of all pairs keeps.
C13_EarlyExitLosesNothing ==
    ContractCall =>
        LET scan == ExhaustiveScan(1, 1, <<>>) IN
        /\ Len(res) = Len(scan)
        /\ \A k \in 1 .. Len(scan) : Count(res, scan[k]) = Count(scan, scan[k])

\* a call where the break cut the inner loop short: some pair is dropped
\* and some pair is kept
C13_Witness ==
    /\ BothFound
    /\ Len(res) > 0
    /\ Len(res) < Len(PrefixList) * Len(SuffixList)
    /\ Len(SuffixList) >= 2

StrictlyIncreasing(seq) == \A k \in 1 .. (Len(seq) - 1) : seq[k] < seq[k + 1]

\* C15: after construction, the occurrence list of every node of the forward
\* and of the backward trie is in strictly increasing order, and so are the
\* two lists find iterates over.
C15_ListsSorted ==
    (pc = "ready") =>
        /\ \A p \in DOMAIN root1 : StrictlyIncreasing(root1[p].data)
        /\ \A p \in DOMAIN root2 : StrictlyIncreasing(root2[p].data)

\* a node that is not a terminator, in each trie, with three values
C15_Witness ==
    /\ pc = "ready"
    /\ \E p \in DOMAIN root1 : p # <<>> /\ p[Len(p)] # 0 /\ Len(root1[p].data) = 3
    /\ \E p \in DOMAIN root2 : p # <<>> /\ p[Len(p)] # 0 /\ Len(root2[p].data) = 3

----------------------------------------------------------------------------
(* One insertion. *)

\* the occurrence list of the node at path p; empty when there is no such node
DataAt(trie, p) == IF p \in DOMAIN trie THEN trie[p].data ELSE <<>>

\* from trie "before" to trie "after", the suffix of T that starts at position
\* a was inserted: every node on its path, terminator child included, has
\* a + depth - 1 appended once, and no other node changed
InsertedSuffix(before, after, T, a) ==
    LET path == Append(PathOf(Sub(T, a, Len(T))), 0)
        onPath == {SubSeq(path, 1, d) : d \in 1 .. Len(path)}
    IN /\ DOMAIN after = DOMAIN before \cup onPath
       /\ \A p \in onPath :
            after[p].data = Append(DataAt(before, p), a + Len(p) - 1)
       /\ \A p \in DOMAIN before \ onPath : after[p] = before[p]

\* C14: the insertion of the suffix that starts at position i of its source
\* string appends exactly one value, i + d - 1, to the occurrence list of
\* every node it reaches at depth d = 1 .. len(suffix), and the value of the
\* same formula to the terminator child at depth len(suffix) + 1; no other
\* node's list changes.
C14_InsertValues ==
    [][/\ (pc = "forward" /\ pc' = "forward" /\ i' = i + 1 /\ WellFormed(genome))
          => (InsertedSuffix(root1, root1', genome, i) /\ root2' = root2)
       /\ (pc = "backward" /\ pc' = "backward" /\ i' = i + 1 /\ WellFormed(genome))
          => (InsertedSuffix(root2, root2', Reverse(genome), i) /\ root1' = root1)
      ]_vars

\* the second suffix is in the backward trie, and a node of it was reached by both
C14_Witness ==
    /\ pc = "backward"
    /\ i = 2
    /\ WellFormed(genome)
    /\ \E p \in DOMAIN root2 : p # <<>> /\ Len(root2[p].data) = 2

----------------------------------------------------------------------------
\* the constructor is in one of its two insert loops
Constructing == pc \in {"forward", "backward"}
\* the constructor has returned, or an exception has left it
ConstructionOver == pc \in {"ready", "returned", "failed"}

\* the bounds of C16 on the counted steps: the insert of the suffix at i - 1,
\* of length len(text) - i + 1, made len(suffix) + 1 calls when it returned and
\* no more when it raised; the loop variable never passes len(text); the two
\* walks of a find made at most len(key) + 1 calls; the pair loop looked at no
\* more than |P| * |Q| pairs
C16_StepBounds ==
    /\ Constructing => i <= Len(genome)
    /\ (Constructing /\ i > 0) => steps.insert = (Len(genome) - i + 1) + 1
    /\ pc = "failed" => steps.insert <= (Len(genome) - i) + 1
    /\ (Returned /\ QStart # <<>> /\ QEnd # <<>>) =>
          /\ steps.find_aux1 <= Len(QStart) + 1
          /\ steps.find_aux2 <= Len(QEnd) + 1
          /\ steps.pairs <= Len(PrefixList) * Len(SuffixList)

\* C16: construction from a non-empty text and every find call with non-empty
\* queries terminate: each insert recursion ends after len(suffix) + 1 calls,
\* each find_aux recursion after at most len(key) + 1 calls, the pair loop of
\* find after at most |P| * |Q| iterations, and a constructor that was called
\* returns (or is left by an exception) after finitely many steps.
C16_Terminates ==
    /\ []C16_StepBounds
    /\ (Constructing /\ genome # <<>>) ~> ConstructionOver

\* a find on a text of three characters that walked both keys to their ends
\* and looked at more than one pair, after a construction that returned
C16_Witness ==
    /\ Returned /\ Len(genome) = MaxLen /\ WellFormed(genome)
    /\ steps.insert = 2
    /\ steps.find_aux1 = Len(QStart) + 1
    /\ steps.find_aux2 = Len(QEnd) + 1
    /\ steps.pairs > 1
====
